---------------------------- MODULE Spec2Model ----------------------------
(***************************************************************************)
(* Model of g2o/stuff/string_tools.cpp: the two-pass formatted-string      *)
(* builder (portable_vasprintf, portable_asprintf) with its wrappers       *)
(* (formatString, strPrintf), the trimming and splitting functions, and    *)
(* the line reader readLine.                                               *)
(*                                                                         *)
(* Characters of rendered text are the integers 1..Alphabet; 0 is the      *)
(* terminator '\0'.  C++ strings of the utility functions are sequences    *)
(* of one-character strings.                                               *)
(***************************************************************************)
EXTENDS Integers, Sequences, FiniteSets, TLC

(***************************************************************************)
(* Bounds of the model.                                                    *)
(***************************************************************************)
\* longest rendered text a template of the model produces
MaxRendered == 1000
\* number of distinct negative values the formatting primitive may report
MaxErrCode == 2
\* longest input string of trim / trimLeft / trimRight / strSplit
MaxStrLen == 3
\* longest stream content handed to readLine
MaxStreamLen == 4
\* number of readLine calls made on one stream
MaxCalls == 5

(***************************************************************************)
(* Program constants.                                                      *)
(***************************************************************************)
\* int length = 512;
InitialLength == 512
\* char* auxPtr = NULL;
NULL == 0
\* the value a caller's pointer holds when the caller never assigned it
UNINIT == NULL - 1
\* the failure value returned by the explicit "return -1" statements
FAIL == -1

Min(a, b) == IF a < b THEN a ELSE b

(***************************************************************************)
(* The formatting primitive vsnprintf and the text it renders.             *)
(***************************************************************************)
Alphabet == 7

\* The text a reference formatter produces for the template of rendered
\* length n with its arguments: n non-zero characters.
Reference(n) == [i \in 1..n |-> ((i + n) % Alphabet) + 1]

\* What a render pass produces when it reads its arguments from a cursor that
\* an earlier pass has already traversed: the argument values are garbage.
Garbled(n) == [i \in 1..n |-> Alphabet + 1]

\* vsnprintf(buf, size, fmt, ap) on success: at most size-1 characters of the
\* full text are stored, followed by the terminator; the return value is the
\* length of the full text, independent of truncation.
vsnprintf(size, text) ==
    [ data   |-> IF size = 0 THEN << >>
                 ELSE SubSeq(text, 1, Min(Len(text), size - 1)) \o <<0>>,
      nchars |-> Len(text) ]

\* The negative values vsnprintf may report for a formatting error.
ErrCodes == { -e : e \in 1..MaxErrCode }

\* The C string stored at the start of a character array: the characters
\* before the first terminator.
CStr(data) ==
    LET Z == { i \in 1..Len(data) : data[i] = 0 }
    IN  IF Z = {} THEN data
        ELSE SubSeq(data, 1, (CHOOSE i \in Z : \A j \in Z : i <= j) - 1)

(***************************************************************************)
(* The heap: at most two blocks are ever requested by one call.            *)
(***************************************************************************)
Blocks == 1..2

NoBlock == [allocated |-> FALSE, size |-> 0, data |-> << >>, live |-> FALSE, frees |-> 0]

EmptyHeap == [b \in Blocks |-> NoBlock]

\* the block the next successful malloc / realloc returns
NextBlock(h) == Cardinality({ b \in Blocks : h[b].allocated }) + 1

\* malloc(size), successful: a live block with uninitialised contents
Malloc(h, size) ==
    [h EXCEPT ![NextBlock(h)] =
        [allocated |-> TRUE, size |-> size, data |-> << >>, live |-> TRUE, frees |-> 0]]

\* free(p): a no-op on NULL, otherwise one release of the block
Free(h, p) ==
    IF p = NULL THEN h
    ELSE [h EXCEPT ![p].live = FALSE, ![p].frees = @ + 1]

\* realloc(p, size), successful: the old block is released by realloc and its
\* contents, up to the smaller of the two sizes, move to the returned block
Realloc(h, p, size) ==
    LET nb == NextBlock(h)
    IN  [Free(h, p) EXCEPT ![nb] =
            [allocated |-> TRUE, size |-> size,
             data |-> SubSeq(h[p].data, 1, Min(Len(h[p].data), size)),
             live |-> TRUE, frees |-> 0]]

(***************************************************************************)
(* State.                                                                  *)
(***************************************************************************)
VARIABLES
    \* --- formatted-string builder and its wrappers ---
    entry,        \* the function the outer caller invoked
    fmtLen,       \* the template, identified by the length of its rendered text
    disposition,  \* the process's disposition of SIGINT
    pc,           \* position of the call
    heap,         \* the blocks requested so far
    buffer,       \* char* buffer
    new_buffer,   \* char* new_buffer
    length,       \* int length
    nchars,       \* int nchars
    strp,         \* *strp, the caller's pointer (auxPtr in the wrappers)
    cursors,      \* state of the va_lists ap and ap_copy
    passes,       \* the render passes made so far
    env,          \* what malloc, vsnprintf and realloc answered, in order
    result,       \* the value portable_vasprintf returned
    signals,      \* number of signals raised by the call
    retString,    \* the string the wrapper built (retString / str)
    nullRead,     \* the wrapper built a string from a null pointer
    \* --- trim / trimLeft / trimRight / strSplit ---
    s,            \* the input string
    delimiters,   \* the delimiter characters handed to strSplit
    out,          \* the results of the functions applied to s
    \* --- readLine ---
    is,           \* the input stream: content, read position, state bits
    currentLine,  \* the caller's line buffer
    returns       \* the values returned by the readLine calls so far, in order

fmtVars == << entry, fmtLen, disposition, pc, heap, buffer, new_buffer, length,
              nchars, strp, cursors, passes, env, result, signals, retString,
              nullRead >>
strVars == << s, delimiters, out >>
readVars == << is, currentLine, returns >>
vars == << fmtVars, strVars, readVars >>


(***************************************************************************)
(* The formatted-string builder.                                           *)
(***************************************************************************)
Entries == {"portable_vasprintf", "portable_asprintf", "formatString", "strPrintf"}

\* SIG_DFL terminates the process when SIGINT is raised; with SIG_IGN (or a
\* handler that returns) raise() returns and the call goes on.
Dispositions == {"SIG_DFL", "SIG_IGN"}

\* The texts a render pass can produce from a cursor in the given state: the
\* reference text from a fresh cursor; reading a cursor that was already
\* traversed (or never initialised) is undefined and may give either.
RenderTexts(cursorState, n) ==
    IF cursorState = "fresh" THEN {Reference(n)} ELSE {Reference(n), Garbled(n)}

\* vsnprintf(buffer, length, fmt, ap_copy): the cursor of the probe pass
ProbeCursor == "ap_copy"

\* the retry pass reading the cursor the probe pass has already traversed
RetryCursorReused == "ap_copy"

\* vsnprintf(new_buffer, length, fmt, ap): the cursor of the retry pass
RetryCursor == "ap"

\* the comparison with no room left for the terminator
FitsNonStrict(n, len) == n <= len

\* the comparison asking for one spare byte beyond the terminator
FitsWithSlack(n, len) == n + 1 < len

\* if (nchars < length): the probe buffer was big enough
Fits(n, len) == n < len

\* length = nchars + 1;
GrowLength(n) == n + 1

\* the realloc failure branch returning without free(buffer)
OnReallocFailLeak(h, buf) == h

\* if (!new_buffer) { free(buffer); ... }
OnReallocFail(h, buf) == Free(h, buf)

\* if (nchars < 0) free(new_buffer);
OnRetryError(h, nbuf) == Free(h, nbuf)

\* return nchars; at the end of the retry path
RetryReturn(n) == n

\* std::raise(SIGINT)
Raise(next) ==
    /\ signals' = signals + 1
    /\ pc' = IF disposition = "SIG_DFL" THEN "killed" ELSE next

InitFmt ==
    /\ entry \in Entries
    /\ fmtLen \in 0..MaxRendered
    /\ disposition \in Dispositions
    /\ pc = IF entry = "portable_asprintf" THEN "asprintf" ELSE "vasprintf"
    /\ heap = EmptyHeap
    /\ buffer = NULL
    /\ new_buffer = NULL
    /\ length = 0
    /\ nchars = 0
    /\ strp = IF entry \in {"formatString", "strPrintf"} THEN NULL ELSE UNINIT
    /\ cursors = [ap |-> "fresh", ap_copy |-> "unset"]
    /\ passes = << >>
    /\ env = << >>
    /\ result = 0
    /\ signals = 0
    /\ retString = << >>
    /\ nullRead = FALSE

IdleFmt ==
    /\ entry = "none" /\ fmtLen = 0 /\ disposition = "SIG_IGN" /\ pc = "idle"
    /\ heap = EmptyHeap /\ buffer = NULL /\ new_buffer = NULL /\ length = 0
    /\ nchars = 0 /\ strp = NULL /\ cursors = [ap |-> "unset", ap_copy |-> "unset"]
    /\ passes = << >> /\ env = << >> /\ result = 0 /\ signals = 0 /\ retString = << >>
    /\ nullRead = FALSE

\* portable_asprintf, line 100: std::raise(SIGINT); then va_start and the call
AsprintfRaise ==
    /\ pc = "asprintf"
    /\ Raise("vasprintf")
    /\ UNCHANGED << entry, fmtLen, disposition, heap, buffer, new_buffer, length,
                    nchars, strp, cursors, passes, result, retString, nullRead,
                    env, strVars, readVars >>

\* portable_vasprintf, lines 51-52: std::raise(SIGINT); int length = 512;
VasprintfRaise ==
    /\ pc = "vasprintf"
    /\ Raise("malloc")
    /\ length' = InitialLength
    /\ UNCHANGED << entry, fmtLen, disposition, heap, buffer, new_buffer,
                    nchars, strp, cursors, passes, result, retString, nullRead,
                    env, strVars, readVars >>

\* lines 53-54, malloc succeeds
MallocOk ==
    /\ pc = "malloc"
    /\ heap' = Malloc(heap, length)
    /\ buffer' = NextBlock(heap)
    /\ env' = Append(env, "malloc:ok")
    /\ pc' = "probe"
    /\ UNCHANGED << entry, fmtLen, disposition, new_buffer, length, nchars, strp,
                    cursors, passes, result, signals, retString, nullRead,
                    strVars, readVars >>

\* lines 53-54, malloc fails: if (!buffer) return -1;
MallocFail ==
    /\ pc = "malloc"
    /\ buffer' = NULL
    /\ env' = Append(env, "malloc:fail")
    /\ result' = FAIL
    /\ pc' = "vret"
    /\ UNCHANGED << entry, fmtLen, disposition, heap, new_buffer, length, nchars,
                    strp, cursors, passes, signals, retString, nullRead,
                    strVars, readVars >>

\* lines 57-61: va_copy(ap_copy, ap); nchars = vsnprintf(buffer, length, fmt, ap_copy)
Probe ==
    /\ pc = "probe"
    /\ LET copied == [cursors EXCEPT !.ap_copy = cursors.ap]
           was    == copied[ProbeCursor]
       IN  /\ cursors' = [copied EXCEPT ![ProbeCursor] = "consumed"]
           /\ \/ \E text \in RenderTexts(was, fmtLen) :
                    LET r == vsnprintf(length, text)
                    IN  /\ heap' = [heap EXCEPT ![buffer].data = r.data]
                        /\ nchars' = r.nchars
                        /\ env' = Append(env, "vsnprintf:ok")
                        /\ passes' = Append(passes,
                               [pass |-> "probe", cursor |-> ProbeCursor, was |-> was,
                                intact |-> (text = Reference(fmtLen))])
              \/ /\ nchars' \in ErrCodes
                 /\ env' = Append(env, "vsnprintf:error")
                 /\ heap' = heap
                 /\ passes' = Append(passes,
                        [pass |-> "probe", cursor |-> ProbeCursor, was |-> was,
                         intact |-> (was = "fresh")])
    /\ pc' = "probed"
    /\ UNCHANGED << entry, fmtLen, disposition, buffer, new_buffer, length, strp,
                    result, signals, retString, nullRead,
                    strVars, readVars >>

\* lines 63-68: vsnprintf error on the probe pass
ProbeError ==
    /\ pc = "probed"
    /\ nchars < 0
    /\ heap' = Free(heap, buffer)
    /\ cursors' = [cursors EXCEPT !.ap_copy = "ended"]
    /\ result' = FAIL
    /\ pc' = "vret"
    /\ UNCHANGED << entry, fmtLen, disposition, buffer, new_buffer, length, nchars,
                    strp, passes, signals, retString, nullRead,
                    env, strVars, readVars >>

\* lines 70-75: the buffer was big enough
ProbeFits ==
    /\ pc = "probed"
    /\ ~(nchars < 0)
    /\ Fits(nchars, length)
    /\ strp' = buffer
    /\ cursors' = [cursors EXCEPT !.ap_copy = "ended"]
    /\ result' = nchars
    /\ pc' = "vret"
    /\ UNCHANGED << entry, fmtLen, disposition, heap, buffer, new_buffer, length,
                    nchars, passes, signals, retString, nullRead,
                    env, strVars, readVars >>

\* lines 78-79, realloc succeeds
ReallocOk ==
    /\ pc = "probed"
    /\ ~(nchars < 0)
    /\ ~Fits(nchars, length)
    /\ length' = GrowLength(nchars)
    /\ heap' = Realloc(heap, buffer, GrowLength(nchars))
    /\ new_buffer' = NextBlock(heap)
    /\ env' = Append(env, "realloc:ok")
    /\ pc' = "retry"
    /\ UNCHANGED << entry, fmtLen, disposition, buffer, nchars, strp, cursors,
                    passes, result, signals, retString, nullRead,
                    strVars, readVars >>

\* lines 78-84, realloc fails
ReallocFail ==
    /\ pc = "probed"
    /\ ~(nchars < 0)
    /\ ~Fits(nchars, length)
    /\ length' = GrowLength(nchars)
    /\ new_buffer' = NULL
    /\ heap' = OnReallocFail(heap, buffer)
    /\ cursors' = [cursors EXCEPT !.ap_copy = "ended"]
    /\ env' = Append(env, "realloc:fail")
    /\ result' = FAIL
    /\ pc' = "vret"
    /\ UNCHANGED << entry, fmtLen, disposition, buffer, nchars, strp, passes,
                    signals, retString, nullRead,
                    strVars, readVars >>

\* lines 86-95: nchars = vsnprintf(new_buffer, length, fmt, ap); ... return nchars;
Retry ==
    /\ pc = "retry"
    /\ LET was == cursors[RetryCursor]
       IN  /\ cursors' = [[cursors EXCEPT ![RetryCursor] = "consumed"]
                             EXCEPT !.ap_copy = "ended"]
           /\ \/ \E text \in RenderTexts(was, fmtLen) :
                    LET r == vsnprintf(length, text)
                    IN  /\ heap' = [heap EXCEPT ![new_buffer].data = r.data]
                        /\ nchars' = r.nchars
                        /\ env' = Append(env, "vsnprintf:ok")
                        /\ strp' = new_buffer
                        /\ passes' = Append(passes,
                               [pass |-> "retry", cursor |-> RetryCursor, was |-> was,
                                intact |-> (text = Reference(fmtLen))])
              \/ /\ nchars' \in ErrCodes
                 /\ env' = Append(env, "vsnprintf:error")
                 /\ heap' = OnRetryError(heap, new_buffer)
                 /\ strp' = strp
                 /\ passes' = Append(passes,
                        [pass |-> "retry", cursor |-> RetryCursor, was |-> was,
                         intact |-> (was = "fresh")])
    /\ result' = RetryReturn(nchars')
    /\ pc' = "vret"
    /\ UNCHANGED << entry, fmtLen, disposition, buffer, new_buffer, length,
                    signals, retString, nullRead,
                    strVars, readVars >>

(***************************************************************************)
(* The callers of portable_vasprintf.                                      *)
(***************************************************************************)
\* The outcomes of building a std::string from a null char pointer (undefined
\* behaviour): the process dies, or the wrapper goes on with some string.
NullStringOutcomes == {"crashed", "done"}

\* portable_asprintf, lines 104-105: va_end(ap); return result;
AsprintfReturn ==
    /\ pc = "vret"
    /\ entry = "portable_asprintf"
    /\ pc' = "done"
    /\ UNCHANGED << entry, fmtLen, disposition, heap, buffer, new_buffer, length,
                    nchars, strp, cursors, passes, result, signals, retString,
                    nullRead,
                    env, strVars, readVars >>

\* if (numChar != -1): formatString's test for success
FormatStringSucceeded(numChar) == numChar # -1

\* formatString, lines 161-169
FormatStringReturn ==
    /\ pc = "vret"
    /\ entry = "formatString"
    /\ IF FormatStringSucceeded(result)
       THEN IF strp = NULL
            THEN /\ nullRead' = TRUE
                 /\ retString' = << >>
                 /\ pc' \in NullStringOutcomes
            ELSE /\ nullRead' = nullRead
                 /\ retString' = CStr(heap[strp].data)
                 /\ pc' = "done"
       ELSE /\ nullRead' = nullRead
            /\ retString' = << >>
            /\ pc' = "done"
    /\ heap' = IF pc' = "done" THEN Free(heap, strp) ELSE heap
    /\ UNCHANGED << entry, fmtLen, disposition, buffer, new_buffer, length, nchars,
                    strp, cursors, passes, result, signals,
                    env, strVars, readVars >>

\* strPrintf, lines 178-181: str = auxPtr; free(auxPtr); return numChars;
StrPrintfReturn ==
    /\ pc = "vret"
    /\ entry = "strPrintf"
    /\ IF strp = NULL
       THEN /\ nullRead' = TRUE
            /\ retString' = << >>
            /\ pc' \in NullStringOutcomes
       ELSE /\ nullRead' = nullRead
            /\ retString' = CStr(heap[strp].data)
            /\ pc' = "done"
    /\ heap' = IF pc' = "done" THEN Free(heap, strp) ELSE heap
    /\ UNCHANGED << entry, fmtLen, disposition, buffer, new_buffer, length, nchars,
                    strp, cursors, passes, result, signals,
                    env, strVars, readVars >>

NextFmt ==
    \/ AsprintfRaise
    \/ VasprintfRaise
    \/ MallocOk
    \/ MallocFail
    \/ Probe
    \/ ProbeError
    \/ ProbeFits
    \/ ReallocOk
    \/ ReallocFail
    \/ Retry
    \/ AsprintfReturn
    \/ FormatStringReturn
    \/ StrPrintfReturn

(***************************************************************************)
(* std::string as used by trim, trimLeft, trimRight and strSplit.          *)
(* Positions are 0-based values of string::size_type, an unsigned type     *)
(* whose arithmetic wraps around; the model keeps SizeBits bits of it.     *)
(***************************************************************************)
SizeBits == 16
SizeMod == 2 ^ SizeBits

\* string::npos, the largest value of size_type
npos == SizeMod - 1

\* a - b and a + b in size_type
SizeSub(a, b) == (a - b + SizeMod) % SizeMod
SizeAdd(a, b) == (a + b) % SizeMod

\* the whitespace set " \t\n"
Whitespace == {" ", "\t", "\n"}

\* the smallest member of a non-empty set of positions
Least(P) == CHOOSE i \in P : \A j \in P : i <= j
\* the largest member of a non-empty set of positions
Greatest(P) == CHOOSE i \in P : \A j \in P : i >= j

\* s.find_first_not_of(set)
find_first_not_of(str, set) ==
    LET P == { i \in 0..(Len(str) - 1) : str[i + 1] \notin set }
    IN  IF P = {} THEN npos ELSE Least(P)

\* s.find_last_not_of(set)
find_last_not_of(str, set) ==
    LET P == { i \in 0..(Len(str) - 1) : str[i + 1] \notin set }
    IN  IF P = {} THEN npos ELSE Greatest(P)

\* s.find_first_of(set, pos)
find_first_of(str, set, pos) ==
    LET P == { i \in 0..(Len(str) - 1) : i >= pos /\ str[i + 1] \in set }
    IN  IF P = {} THEN npos ELSE Least(P)

\* what the model records when std::out_of_range is thrown
OutOfRange == <<"std::out_of_range">>

\* std::string(s, pos, n) and s.substr(pos, n): the characters of s from pos
\* on, at most n of them; throws when pos is beyond the end of s
substr(str, pos, n) ==
    IF pos > Len(str) THEN OutOfRange
    ELSE SubSeq(str, pos + 1, pos + Min(n, Len(str) - pos))

trim(str) ==
    IF Len(str) = 0 THEN str
    ELSE LET b == find_first_not_of(str, Whitespace)
             e == find_last_not_of(str, Whitespace)
         IN  IF b = npos THEN << >>
             ELSE substr(str, b, SizeAdd(SizeSub(e, b), 1))

trimLeft(str) ==
    IF Len(str) = 0 THEN str
    ELSE LET b == find_first_not_of(str, Whitespace)
             e == SizeSub(Len(str), 1)
         IN  IF b = npos THEN << >>
             ELSE substr(str, b, SizeAdd(SizeSub(e, b), 1))

\* trimRight with the length computed in a type wider than size_type, so that
\* npos + 1 does not wrap around to 0
trimRightNoWrap(str) ==
    IF Len(str) = 0 THEN str
    ELSE LET e == find_last_not_of(str, Whitespace)
         IN  substr(str, 0, e + 1)

trimRight(str) ==
    IF Len(str) = 0 THEN str
    ELSE LET b == 0
             e == find_last_not_of(str, Whitespace)
         IN  IF b = npos THEN << >>
             ELSE substr(str, b, SizeAdd(SizeSub(e, b), 1))

\* the do-while loop of strSplit, entered with the given lastPos
RECURSIVE SplitLoop(_, _, _)
SplitLoop(str, delims, lastPos) ==
    LET pos   == find_first_of(str, delims, lastPos)
        token == substr(str, lastPos, SizeSub(pos, lastPos))
    IN  IF pos = npos THEN <<token>>
        ELSE <<token>> \o SplitLoop(str, delims, SizeAdd(pos, 1))

\* strSplit with a loop that stops at the end of the string, so that a
\* trailing delimiter gives no trailing empty token
strSplitNoTrailing(str, delims) ==
    LET toks == SplitLoop(str, delims, 0)
    IN  IF Len(toks) > 1 /\ toks[Len(toks)] = << >>
        THEN SubSeq(toks, 1, Len(toks) - 1)
        ELSE toks

strSplit(str, delims) == SplitLoop(str, delims, 0)

\* the characters the input strings of the model are made of
Chars == {" ", "\t", "\n", "a", ","}

\* the delimiter sets handed to strSplit
DelimSets == SUBSET {",", " "}

StringsUpTo(n) == UNION { [1..k -> Chars] : k \in 0..n }

InitStr ==
    /\ s \in StringsUpTo(MaxStrLen)
    /\ delimiters \in DelimSets
    /\ out = [f \in {} |-> << >>]

IdleStr ==
    /\ s = << >> /\ delimiters = {} /\ out = [f \in {} |-> << >>]

\* out with the result of function f added
Put(o, f, value) == [g \in DOMAIN o \cup {f} |-> IF g = f THEN value ELSE o[g]]

CallTrim ==
    /\ "trim" \notin DOMAIN out
    /\ out' = Put(out, "trim", trim(s))
    /\ UNCHANGED << s, delimiters, fmtVars, readVars >>

CallTrimLeft ==
    /\ "trimLeft" \notin DOMAIN out
    /\ out' = Put(out, "trimLeft", trimLeft(s))
    /\ UNCHANGED << s, delimiters, fmtVars, readVars >>

CallTrimRight ==
    /\ "trimRight" \notin DOMAIN out
    /\ out' = Put(out, "trimRight", trimRight(s))
    /\ UNCHANGED << s, delimiters, fmtVars, readVars >>

CallStrSplit ==
    /\ "strSplit" \notin DOMAIN out
    /\ out' = Put(out, "strSplit", strSplit(s, delimiters))
    /\ UNCHANGED << s, delimiters, fmtVars, readVars >>

NextStr ==
    \/ CallTrim
    \/ CallTrimLeft
    \/ CallTrimRight
    \/ CallStrSplit

(***************************************************************************)
(* readLine and the input stream it reads from.                            *)
(***************************************************************************)
StreamChars == {"a", "b", "\n"}

Streams == UNION { [1..k -> StreamChars] : k \in 0..MaxStreamLen }

\* a freshly opened stream over the given content
OpenStream(content) == [content |-> content, pos |-> 0, eofbit |-> FALSE, failbit |-> FALSE]

good(st) == ~st.eofbit /\ ~st.failbit

\* is.get(*currentLine.rdbuf()): on a stream that is not good on entry the
\* sentry fails, nothing is extracted and failbit is set; otherwise the
\* characters up to, not including, the next '\n' go to the line buffer, with
\* eofbit when the end is reached and failbit when no character was stored
GetLine(st) ==
    IF ~good(st)
    THEN [ line |-> << >>, st |-> [st EXCEPT !.failbit = TRUE] ]
    ELSE LET rest == SubSeq(st.content, st.pos + 1, Len(st.content))
             N    == { i \in 1..Len(rest) : rest[i] = "\n" }
             n    == IF N = {} THEN Len(rest) ELSE Least(N) - 1
         IN  [ line |-> SubSeq(rest, 1, n),
               st   |-> [st EXCEPT !.pos = st.pos + n,
                                   !.eofbit = (N = {}),
                                   !.failbit = (n = 0)] ]

\* is.clear()
Clear(st) == [st EXCEPT !.eofbit = FALSE, !.failbit = FALSE]

\* G2O_FSKIP_LINE(is): read characters one at a time until a '\n' has been
\* read or the stream is no longer good
RECURSIVE SkipLine(_)
SkipLine(st) ==
    IF ~good(st) THEN st
    ELSE IF st.pos >= Len(st.content)
         THEN [st EXCEPT !.eofbit = TRUE, !.failbit = TRUE]
         ELSE IF st.content[st.pos + 1] = "\n"
              THEN [st EXCEPT !.pos = st.pos + 1]
              ELSE SkipLine([st EXCEPT !.pos = st.pos + 1])

\* if (is.fail()) is.clear();
ClearIfFailed(st) == IF st.failbit THEN Clear(st) ELSE st

\* the end-of-stream sentinel
EndOfStream == -1

\* readLine(is, currentLine): the value returned, the line buffer and the
\* stream after the call
readLine(st, line) ==
    IF st.eofbit THEN [ret |-> EndOfStream, line |-> line, st |-> st]
    ELSE LET g == GetLine(st)
         IN  [ret |-> Len(g.line), line |-> g.line,
              st |-> SkipLine(ClearIfFailed(g.st))]

\* the stream the caller hands to the first call: freshly opened, or with
\* state bits left set by the caller's earlier reads
InitRead ==
    /\ \E content \in Streams, e \in BOOLEAN, f \in BOOLEAN :
          is = [OpenStream(content) EXCEPT !.eofbit = e, !.failbit = f]
    /\ currentLine = << >>
    /\ returns = << >>

IdleRead ==
    /\ is = OpenStream(<< >>) /\ currentLine = << >> /\ returns = << >>

CallReadLine ==
    /\ Len(returns) < MaxCalls
    /\ LET r == readLine(is, currentLine)
       IN  /\ is' = r.st
           /\ currentLine' = r.line
           /\ returns' = Append(returns,
                  [ret |-> r.ret, line |-> r.line, goodOnEntry |-> good(is)])
    /\ UNCHANGED << fmtVars, strVars >>

NextRead == CallReadLine

(***************************************************************************)
(* Specifications.                                                         *)
(***************************************************************************)
Init == InitFmt /\ IdleStr /\ IdleRead
Next == NextFmt
Spec == Init /\ [][Next]_vars

InitS == IdleFmt /\ InitStr /\ IdleRead
NextS == NextStr
SpecStr == InitS /\ [][NextS]_vars

InitR == IdleFmt /\ IdleStr /\ InitRead
NextR == NextRead
SpecRead == InitR /\ [][NextR]_vars

(***************************************************************************)
(* Properties of the formatted-string builder (specification Spec).        *)
(***************************************************************************)
Allocated == { b \in Blocks : heap[b].allocated }
Live == { b \in Blocks : heap[b].live }

\* the value the caller's pointer held before the call
InitialStrp == IF entry \in {"formatString", "strPrintf"} THEN NULL ELSE UNINIT

\* the positions inside portable_vasprintf, its return included
BuilderPcs == {"vasprintf", "malloc", "probe", "probed", "retry", "vret"}

Failures == {"malloc:fail", "vsnprintf:error", "realloc:fail"}

\* some step of the call failed / every step of the call succeeded
SomeStepFailed == \E i \in 1..Len(env) : env[i] \in Failures
AllStepsSucceeded == ~SomeStepFailed

Returned == pc = "vret"

\* C1: at the return of portable_vasprintf every block the call allocated is
\* either the one block handed to the caller through *strp (only when the call
\* reports success) or was released exactly once; no block is released twice
\* during the call, and on failure *strp is untouched and no block is live.
C1_BuffersResolved ==
    /\ pc \in BuilderPcs => \A b \in Blocks : heap[b].frees <= 1
    /\ Returned =>
        /\ \A b \in Allocated :
              \/ heap[b].live /\ heap[b].frees = 0 /\ strp = b /\ result >= 0
              \/ ~heap[b].live /\ heap[b].frees = 1 /\ strp # b
        /\ result >= 0 => strp \in Allocated /\ Live = {strp}
        /\ result < 0 => strp = InitialStrp /\ Live = {}

\* a failed call that had allocated two blocks has returned
C1_Witness ==
    /\ Returned /\ result < 0 /\ Cardinality(Allocated) = 2
    /\ \A b \in Allocated : heap[b].frees = 1

\* C2: a template whose rendered length is at least the probe capacity, with
\* every allocation and render succeeding, returns through the retry path
\* with the rendered length and the complete reference text; exactly two
\* blocks were allocated and the first has been released.
C2_RetryPathComplete ==
    (Returned /\ fmtLen >= InitialLength /\ AllStepsSucceeded) =>
        /\ Len(passes) = 2 /\ passes[2].pass = "retry"
        /\ result = fmtLen
        /\ strp \in Allocated /\ heap[strp].live
        /\ CStr(heap[strp].data) = Reference(fmtLen)
        /\ Len(heap[strp].data) <= heap[strp].size
        /\ Cardinality(Allocated) = 2
        /\ ~heap[1].live /\ heap[1].frees = 1
        /\ strp = 2

\* a template of exactly the probe capacity has returned through the retry path
C2_Witness ==
    /\ Returned /\ fmtLen = InitialLength /\ AllStepsSucceeded
    /\ Len(passes) = 2 /\ result = InitialLength

\* C3 as stated: a template shorter than the probe capacity returns on the
\* first pass with a buffer of exactly rendered-length + 1 bytes.
C3_ExactSizeBuffer ==
    (Returned /\ fmtLen < InitialLength /\ AllStepsSucceeded) =>
        /\ result = fmtLen
        /\ Len(passes) = 1
        /\ strp \in Allocated /\ heap[strp].size = fmtLen + 1

\* C3 amended: a template shorter than the probe capacity returns success on
\* the first pass without re-rendering, and the buffer handed to the caller is
\* the probe buffer itself: its size is the probe capacity (512), it holds the
\* complete text and its terminator, and only for a rendered length of 511 is
\* that size exactly rendered-length + 1.
C3_ProbeBufferHandedOver ==
    (Returned /\ fmtLen < InitialLength /\ AllStepsSucceeded) =>
        /\ result = fmtLen
        /\ Len(passes) = 1 /\ passes[1].pass = "probe"
        /\ Cardinality(Allocated) = 1
        /\ strp = buffer /\ heap[strp].live
        /\ heap[strp].size = InitialLength
        /\ CStr(heap[strp].data) = Reference(fmtLen)
        /\ Len(heap[strp].data) = fmtLen + 1
        /\ (heap[strp].size = fmtLen + 1) <=> (fmtLen = InitialLength - 1)

\* a template one short of the probe capacity has returned on the first pass
C3_Witness ==
    /\ Returned /\ fmtLen = InitialLength - 1 /\ AllStepsSucceeded
    /\ Len(passes) = 1 /\ strp = buffer

\* C4: when the builder fails, formatString and strPrintf hand the failure to
\* their caller and never build a string from the null output pointer.
C4_WrappersNeverReadNull ==
    (entry \in {"formatString", "strPrintf"} /\ SomeStepFailed
        /\ pc \in {"done", "crashed"}) =>
        /\ ~nullRead
        /\ pc = "done"

\* C5: no call of the builder raises a signal or ends the process.
C5_NoSignalRaised ==
    signals = 0 /\ pc # "killed"

\* C9: no argument cursor is traversed by more than one render pass: the
\* probe pass reads the copy, taken while the original was untouched, the
\* retry pass reads the original, which nothing has traversed, and so both
\* passes render the same argument values.
C9_CursorsTraversedOnce ==
    /\ Len(passes) <= 2
    /\ \A i \in 1..Len(passes) : passes[i].was = "fresh" /\ passes[i].intact
    /\ \A i, j \in 1..Len(passes) : i # j => passes[i].cursor # passes[j].cursor
    /\ Len(passes) >= 1 => passes[1].pass = "probe" /\ passes[1].cursor = "ap_copy"
    /\ Len(passes) = 2 => passes[2].pass = "retry" /\ passes[2].cursor = "ap"
    /\ pc \in {"probed", "retry"} => cursors.ap = "fresh"

\* the retry pass has rendered, after the probe pass
C9_Witness ==
    /\ Returned /\ Len(passes) = 2 /\ cursors.ap = "consumed"
    /\ env[Len(env)] = "vsnprintf:ok"

\* C10: every failure path of portable_vasprintf returns the same value -1,
\* the value formatString tests.
C10_FailureIsMinusOne ==
    (Returned /\ SomeStepFailed) =>
        /\ result = FAIL
        /\ ~FormatStringSucceeded(result)

(***************************************************************************)
(* Properties of strSplit and the trim functions (specification SpecStr).  *)
(***************************************************************************)
\* number of characters of s that belong to the delimiter set
DelimCount == Cardinality({ i \in 1..Len(s) : s[i] \in delimiters })

RECURSIVE TotalLen(_)
TotalLen(toks) == IF toks = << >> THEN 0 ELSE Len(Head(toks)) + TotalLen(Tail(toks))

\* the tokens concatenated, with the character s has at that place put back
\* between each token and the next; offset is the number of characters of s
\* before the first token
RECURSIVE Rejoin(_, _)
Rejoin(toks, offset) ==
    IF Len(toks) = 1 THEN toks[1]
    ELSE LET at == offset + Len(toks[1]) + 1
         IN  toks[1] \o <<s[at]>> \o Rejoin(Tail(toks), at)

\* C7: strSplit returns, in order, (number of delimiter characters of s) + 1
\* tokens, none containing a delimiter, and the tokens with the original
\* delimiter characters put back between them give s.
C7_SplitTokens ==
    "strSplit" \in DOMAIN out =>
        LET toks == out["strSplit"]
        IN  /\ Len(toks) = DelimCount + 1
            /\ \A i \in 1..Len(toks) : \A j \in 1..Len(toks[i]) :
                  toks[i][j] \notin delimiters
            /\ TotalLen(toks) + Len(toks) - 1 = Len(s)
            /\ Rejoin(toks, 0) = s
            /\ DelimCount = 0 => toks = <<s>>

\* a string with two delimiters in a row and a trailing delimiter was split
C7_Witness ==
    /\ "strSplit" \in DOMAIN out
    /\ s = <<",", ",", " ">> /\ delimiters = {",", " "}
    /\ out["strSplit"] = << << >>, << >>, << >>, << >> >>

\* s is non-empty and made only of whitespace
OnlyWhitespace == s # << >> /\ \A i \in 1..Len(s) : s[i] \in Whitespace

\* C8: for a non-empty input made only of whitespace, trim, trimLeft and
\* trimRight each return the empty string.
C8_WhitespaceTrimsToEmpty ==
    OnlyWhitespace =>
        /\ "trim" \in DOMAIN out => out["trim"] = << >>
        /\ "trimLeft" \in DOMAIN out => out["trimLeft"] = << >>
        /\ "trimRight" \in DOMAIN out => out["trimRight"] = << >>

\* the three functions were applied to a whitespace-only string, for which
\* the search in trimRight finds no position
C8_Witness ==
    /\ OnlyWhitespace /\ Len(s) >= 2
    /\ find_last_not_of(s, Whitespace) = npos
    /\ {"trim", "trimLeft", "trimRight"} \subseteq DOMAIN out
    /\ out["trimRight"] = << >>

(***************************************************************************)
(* Properties of readLine (specification SpecRead).                        *)
(***************************************************************************)
\* the stream holds k >= 1 lines, each terminated by a newline, and was good
\* when the first call was made
NewlineTerminated ==
    /\ is.content # << >> /\ is.content[Len(is.content)] = "\n"
    /\ returns # << >> /\ returns[1].goodOnEntry

\* number of lines of the stream
LineCount == Cardinality({ i \in 1..Len(is.content) : is.content[i] = "\n" })

\* the lines of the stream, in order (followed by the empty remainder after
\* the last newline)
LinesOf(content) == SplitLoop(content, {"\n"}, 0)

\* C6: on a stream of k newline-terminated lines, calls 1..k of readLine
\* yield the lines in order with their lengths and call k+1 returns the
\* end-of-stream sentinel, with no empty line in between.
C6_SentinelAfterLastLine ==
    (NewlineTerminated /\ Len(returns) >= LineCount + 1) =>
        /\ \A i \in 1..LineCount :
              /\ returns[i].line = LinesOf(is.content)[i]
              /\ returns[i].ret = Len(returns[i].line)
        /\ returns[LineCount + 1].ret = EndOfStream

\* What readLine does on such a stream: calls 1..k yield the lines, call k+1
\* reports an empty line (0) and only call k+2 returns the sentinel.
C6_ObservedExtraEmptyLine ==
    (NewlineTerminated /\ Len(returns) >= LineCount + 1) =>
        /\ \A i \in 1..LineCount :
              /\ returns[i].line = LinesOf(is.content)[i]
              /\ returns[i].ret = Len(returns[i].line)
        /\ returns[LineCount + 1].ret = 0
        /\ Len(returns) >= LineCount + 2 => returns[LineCount + 2].ret = EndOfStream

\* What readLine does on a stream handed over with failbit set and eofbit
\* clear: the first call extracts nothing and returns 0, and the first line of
\* the stream is skipped, never returned.
C6_ObservedFailedEntry ==
    (returns # << >> /\ ~returns[1].goodOnEntry) =>
        \/ returns[1].ret = EndOfStream
        \/ returns[1].ret = 0 /\ returns[1].line = << >>

=============================================================================
